---- MODULE Spec2Model ----
(***************************************************************************)
(* Model of v2/pkg/js/libs/postgres/postgres.go: the stateless Client with *)
(* IsPostgres (probe), Connect / ConnectWithDB (authenticate, both through *)
(* connect) and ExecuteQuery (through unmarshalSQLRows).                   *)
(*                                                                         *)
(* One caller invokes the exported operations one after the other.  The    *)
(* collaborators (net.DialTimeout, the fingerprint plugin, go-pg's pool,   *)
(* database/sql with lib/pq, jsoniter) are the environment: each of their  *)
(* outcomes is a nondeterministic choice.  The resources they hand out     *)
(* (TCP connection, pool handle, sql.DB handle, sql.Rows cursor) are       *)
(* counted while open, so that a missing Close shows as a count that is    *)
(* still positive after the call has returned.  username, password and    *)
(* the query text are handed to the collaborators unread; no branch of the *)
(* file depends on them, and they are not part of the state.               *)
(***************************************************************************)
EXTENDS Integers, Sequences, FiniteSets, TLC

VARIABLES
    pc,         \* position of the caller: "idle" or a point inside a call
    op,         \* exported operation being (or last) executed
    host, port, dbName,     \* arguments of the call
    ret,        \* value returned by the last finished call
    tcpOpen,    \* net.Conn values dialled by IsPostgres and not closed
    poolsOpen,  \* *pg.DB handles made by pg.Connect and not closed
    created,    \* handles / connections created during the current call
    netOps,     \* network actions performed during the current call
    dialErr, service, detErr, detectRan,   \* collaborator outcomes, IsPostgres
    execErr,    \* outcome of db.Exec("select 1") in connect
    dbsOpen,    \* *sql.DB handles made by sql.Open and not closed
    rowsOpen,   \* *sql.Rows cursors returned by db.Query and not closed
    columnTypes,\* column metadata of the current result set
    rsCount,    \* number of rows of the current result set
    rsRows,     \* the rows rows.Next() has delivered so far, in order
    scanArgs,   \* holders filled by rows.Scan for the current row
    finalRows,  \* records accumulated by unmarshalSQLRows
    failure     \* first collaborator failure met by the current call

vars == <<pc, op, host, port, dbName, ret, tcpOpen, poolsOpen, created, netOps,
          dialErr, service, detErr, detectRan, execErr,
          dbsOpen, rowsOpen, columnTypes, rsCount, rsRows, scanArgs, finalRows,
          failure>>

probeVars == <<tcpOpen, dialErr, service, detErr, detectRan>>
authVars  == <<poolsOpen, execErr>>
queryVars == <<dbsOpen, rowsOpen, columnTypes, rsCount, rsRows, scanArgs,
               finalRows, failure>>

----------------------------------------------------------------------------
(* Bounds of the model.                                                    *)

\* An error message is the concatenation of at most MaxFrags fragments.
MaxFrags == 2
\* A call that opens resources starts only while fewer than MaxOpen are open.
MaxOpen == 1
\* A result set has at most MaxCols columns and at most MaxCells cells.
MaxCols == 2
MaxCells == 3

----------------------------------------------------------------------------
(* Go values.                                                              *)

\* The nil error, and an error whose Error() text is m.
NilErr == [isNil |-> TRUE, msg |-> ""]
Err(m) == [isNil |-> FALSE, msg |-> m]

\* strings.Contains(s, substr)
Contains(s, substr) ==
    \E i \in 0..(Len(s) - Len(substr)) : SubSeq(s, i + 1, i + Len(substr)) = substr

Hosts == {"", "db.internal"}
Ports == {-1, 0, 5432}
DbNames == {"postgres", "app"}

\* Pieces of driver error text: the five classified substrings, near misses
\* of them (other case, other wording, split in two) and unrelated text.
Fragments ==
    { "dial tcp 10.0.0.1:5432: ",
      "connect: connection refused",
      "no pg_hba.conf entry for host",
      "network unreachable",
      "reset",
      "i/o timeout",
      "connect: connection refuse", "d",
      "rese", "t",
      "Reset",
      "network is unreachable",
      "I/O timeout",
      "password authentication failed" }

RECURSIVE Concat(_)
Concat(fs) == IF fs = <<>> THEN "" ELSE Head(fs) \o Concat(Tail(fs))

ErrMsgs ==
    { Concat(fs) : fs \in UNION { [1..n -> Fragments] : n \in 1..MaxFrags } }

DialErrs == { Err("dial tcp: connect: connection refused"),
              Err("dial tcp: i/o timeout") }
DetectErrs == { Err("EOF"), Err("read tcp: i/o timeout") }

\* What plugin.Run returns as its first value: nil or a *plugins.Service.
NoService == "nil"
Services == { NoService, "postgresql" }

NoRet == [none |-> TRUE]

\* A call starts with fresh locals and nothing returned yet.
ResetLocals ==
    /\ ret' = NoRet
    /\ created' = 0 /\ netOps' = 0
    /\ dialErr' = NilErr /\ service' = NoService /\ detErr' = NilErr
    /\ detectRan' = FALSE
    /\ execErr' = NilErr

----------------------------------------------------------------------------
(* connect (Connect, ConnectWithDB)                                        *)

\* the validation with the comparison off by one: port 0 passes
InvalidTargetStrict(h, p) == h = "" \/ p < 0

\* host == "" || port <= 0
InvalidTarget(h, p) == h = "" \/ p <= 0

\* the switch with the "reset" case left out
IsConnectivityErrNoReset(m) ==
    \/ Contains(m, "connect: connection refused")
    \/ Contains(m, "no pg_hba.conf entry for host")
    \/ Contains(m, "network unreachable")
    \/ Contains(m, "i/o timeout")

\* the switch over strings.Contains(err.Error(), ...) with fallthrough
IsConnectivityErr(m) ==
    \/ Contains(m, "connect: connection refused")
    \/ Contains(m, "no pg_hba.conf entry for host")
    \/ Contains(m, "network unreachable")
    \/ Contains(m, "reset")
    \/ Contains(m, "i/o timeout")

\* what connect returns once db.Exec("select 1") has returned err
ExecResult(err) ==
    IF ~err.isNil
      THEN IF IsConnectivityErr(err.msg)
             THEN [ok |-> FALSE, err |-> err]
             ELSE [ok |-> FALSE, err |-> NilErr]
      ELSE [ok |-> TRUE, err |-> NilErr]

\* Client.Connect: connect(host, port, username, password, "postgres")
CallConnect ==
    /\ pc = "idle" /\ poolsOpen < MaxOpen
    /\ \E h \in Hosts, p \in Ports :
         /\ host' = h /\ port' = p
    /\ dbName' = "postgres"
    /\ op' = "Connect" /\ pc' = "connect"
    /\ ResetLocals
    /\ UNCHANGED <<poolsOpen, tcpOpen, queryVars>>

\* Client.ConnectWithDB: connect(host, port, username, password, dbName)
CallConnectWithDB ==
    /\ pc = "idle" /\ poolsOpen < MaxOpen
    /\ \E h \in Hosts, p \in Ports, d \in DbNames :
         /\ host' = h /\ port' = p /\ dbName' = d
    /\ op' = "ConnectWithDB" /\ pc' = "connect"
    /\ ResetLocals
    /\ UNCHANGED <<poolsOpen, tcpOpen, queryVars>>

\* the validation at the head of connect
ConnectValidate ==
    /\ pc = "connect"
    /\ IF InvalidTarget(host, port)
         THEN /\ ret' = [ok |-> FALSE, err |-> Err("invalid host or port")]
              /\ pc' = "done"
         ELSE /\ pc' = "pgConnect"
              /\ UNCHANGED ret
    /\ UNCHANGED <<op, host, port, dbName, created, netOps, authVars,
                   probeVars, queryVars>>

\* db := pg.Connect(&pg.Options{...}): makes the pool handle, dials nothing
PgConnect ==
    /\ pc = "pgConnect"
    /\ poolsOpen' = poolsOpen + 1
    /\ created' = created + 1
    /\ pc' = "exec"
    /\ UNCHANGED <<op, host, port, dbName, ret, netOps, execErr,
                   probeVars, queryVars>>

\* _, err := db.Exec("select 1"), the classification and the return.
\* connect has no db.Close(), deferred or not: the handle stays open.
ConnectExec ==
    /\ pc = "exec"
    /\ \E e \in {NilErr} \cup { Err(m) : m \in ErrMsgs } :
         /\ execErr' = e
         /\ ret' = ExecResult(e)
    /\ netOps' = netOps + 1
    /\ pc' = "done"
    /\ UNCHANGED <<op, host, port, dbName, created, poolsOpen,
                   probeVars, queryVars>>

----------------------------------------------------------------------------
(* Client.IsPostgres                                                       *)

CallIsPostgres ==
    /\ pc = "idle"
    /\ \E h \in Hosts, p \in Ports :
         /\ host' = h /\ port' = p
    /\ dbName' = ""
    /\ op' = "IsPostgres" /\ pc' = "dial"
    /\ ResetLocals
    /\ UNCHANGED <<poolsOpen, tcpOpen, queryVars>>

\* net.DialTimeout fails: return false, err
DialFail ==
    /\ pc = "dial"
    /\ \E e \in DialErrs :
         /\ dialErr' = e
         /\ ret' = [ok |-> FALSE, err |-> e]
    /\ netOps' = netOps + 1
    /\ pc' = "done"
    /\ UNCHANGED <<op, host, port, dbName, tcpOpen, created, service, detErr,
                   detectRan, authVars, queryVars>>

\* net.DialTimeout succeeds; defer conn.Close(); conn.SetDeadline(...)
DialOk ==
    /\ pc = "dial"
    /\ tcpOpen' = tcpOpen + 1
    /\ created' = created + 1
    /\ netOps' = netOps + 1
    /\ pc' = "detect"
    /\ UNCHANGED <<op, host, port, dbName, ret, dialErr, service, detErr,
                   detectRan, authVars, queryVars>>

\* IsPostgres without the service == nil test
RunResultNoNilTest(svc, err) ==
    IF ~err.isNil THEN [ok |-> FALSE, err |-> err]
    ELSE [ok |-> TRUE, err |-> NilErr]

\* what IsPostgres returns once plugin.Run has returned (svc, err)
RunResult(svc, err) ==
    IF ~err.isNil THEN [ok |-> FALSE, err |-> err]
    ELSE IF svc = NoService THEN [ok |-> FALSE, err |-> NilErr]
    ELSE [ok |-> TRUE, err |-> NilErr]

\* IsPostgres without the deferred conn.Close()
NoDeferredClose(n) == n

\* the deferred conn.Close(), run on every return that follows the dial
DeferredClose(n) == n - 1

\* service, err := plugin.Run(conn, ...), the three returns, the deferred Close
Detect ==
    /\ pc = "detect"
    /\ \E svc \in Services, e \in {NilErr} \cup DetectErrs :
         /\ service' = svc
         /\ detErr' = e
         /\ ret' = RunResult(svc, e)
    /\ detectRan' = TRUE
    /\ netOps' = netOps + 1
    /\ tcpOpen' = DeferredClose(tcpOpen)
    /\ pc' = "done"
    /\ UNCHANGED <<op, host, port, dbName, created, dialErr, authVars, queryVars>>


----------------------------------------------------------------------------
(* Values of the query path.                                               *)

\* driver.Value as the driver hands it to rows.Scan: nil (SQL NULL), bool,
\* int64 or string.  database/sql does not tie the value to the declared
\* type of its column.
Null == [k |-> "nil"]
BoolV(x) == [k |-> "bool", b |-> x]
IntV(x) == [k |-> "int64", i |-> x]
StrV(x) == [k |-> "string", s |-> x]
DriverValues == { Null, BoolV(TRUE), IntV(0), StrV("7") }

\* DatabaseTypeName() of a column: the six names of the switch and one
\* name it does not list.
TypeNames == { "VARCHAR", "TEXT", "UUID", "TIMESTAMP", "BOOL", "INT4", "INT8" }
ColNames == { "a", "b" }
Columns == [name : ColNames, type : TypeNames]

QueryHosts == { "db.internal" }
QueryPorts == { 5432 }
QueryDbNames == { "app" }
QueryErrs == { Err("pq: syntax error"), Err("read tcp: connection reset by peer") }

\* The shapes of the result sets db.Query can return: 1..MaxCols columns
\* and a number of rows that keeps the set within MaxCells cells.
\* The two names being interchangeable, the first column is named "a".
ColumnLists ==
    UNION { { cols \in [1..c -> Columns] : cols[1].name = "a" } : c \in 1..MaxCols }
RowCounts(cols) == 0..(MaxCells \div Len(cols))
\* One row of driver values for the given columns.
RowsOf(cols) == [1..Len(cols) -> DriverValues]

\* the switch without its "INT4" case
NewHolderNoInt4(typeName) ==
    CASE typeName = "BOOL" ->
             [h |-> "NullBool", Bool |-> FALSE, Valid |-> FALSE]
      [] OTHER ->
             [h |-> "NullString", String |-> "", Valid |-> FALSE]

\* the switch on v.DatabaseTypeName(): the holder allocated for a column
NewHolder(typeName) ==
    CASE typeName \in {"VARCHAR", "TEXT", "UUID", "TIMESTAMP"} ->
             [h |-> "NullString", String |-> "", Valid |-> FALSE]
      [] typeName = "BOOL" ->
             [h |-> "NullBool", Bool |-> FALSE, Valid |-> FALSE]
      [] typeName = "INT4" ->
             [h |-> "NullInt64", Int64 |-> 0, Valid |-> FALSE]
      [] OTHER ->
             [h |-> "NullString", String |-> "", Valid |-> FALSE]

\* strconv.FormatBool / FormatInt as database/sql's asString uses them
AsString(v) ==
    CASE v.k = "string" -> v.s
      [] v.k = "bool" -> IF v.b THEN "true" ELSE "false"
      [] v.k = "int64" -> ToString(v.i)

\* strconv.ParseBool
ParseBoolOk(s) == s \in {"1", "t", "T", "TRUE", "true", "True",
                         "0", "f", "F", "FALSE", "false", "False"}
ParseBool(s) == s \in {"1", "t", "T", "TRUE", "true", "True"}

\* strconv.ParseInt(s, 10, 64) on the digit strings of the model
DigitStrings == { ToString(n) : n \in 0..9 }
ParseIntOk(s) == s \in DigitStrings
ParseInt(s) == CHOOSE n \in 0..9 : ToString(n) = s

\* does (*NullX).Scan(v) return an error?
ScanFails(holder, v) ==
    CASE v.k = "nil" -> FALSE
      [] holder.h = "NullString" -> FALSE
      [] holder.h = "NullBool" ->
             (CASE v.k = "bool" -> FALSE
                [] v.k = "string" -> ~ParseBoolOk(v.s)
                [] v.k = "int64" -> v.i \notin {0, 1})
      [] holder.h = "NullInt64" ->
             (v.k # "int64" /\ ~ParseIntOk(AsString(v)))

\* the holder after a successful (*NullX).Scan(v)
ScanInto(holder, v) ==
    CASE holder.h = "NullString" ->
             IF v.k = "nil"
               THEN [holder EXCEPT !.String = "", !.Valid = FALSE]
               ELSE [holder EXCEPT !.String = AsString(v), !.Valid = TRUE]
      [] holder.h = "NullBool" ->
             IF v.k = "nil"
               THEN [holder EXCEPT !.Bool = FALSE, !.Valid = FALSE]
               ELSE [holder EXCEPT
                       !.Bool = (CASE v.k = "bool" -> v.b
                                   [] v.k = "string" -> ParseBool(v.s)
                                   [] v.k = "int64" -> v.i = 1),
                       !.Valid = TRUE]
      [] holder.h = "NullInt64" ->
             IF v.k = "nil"
               THEN [holder EXCEPT !.Int64 = 0, !.Valid = FALSE]
               ELSE [holder EXCEPT
                       !.Int64 = IF v.k = "int64" THEN v.i
                                 ELSE ParseInt(AsString(v)),
                       !.Valid = TRUE]

\* an unwrap that keeps nullability: nil for a holder that is not Valid
UnwrapKeepNull(holder) ==
    IF ~holder.Valid THEN Null
    ELSE CASE holder.h = "NullBool" -> BoolV(holder.Bool)
           [] holder.h = "NullString" -> StrV(holder.String)
           [] holder.h = "NullInt64" -> IntV(holder.Int64)
           [] OTHER -> holder

\* the chain of type assertions: the bare value a holder is unwrapped to
Unwrap(holder) ==
    CASE holder.h = "NullBool" -> BoolV(holder.Bool)
      [] holder.h = "NullString" -> StrV(holder.String)
      [] holder.h = "NullInt64" -> IntV(holder.Int64)
      [] OTHER -> holder

\* scanArgs of one row: a fresh holder per column
NewScanArgs(cols) == [i \in 1..Len(cols) |-> NewHolder(cols[i].type)]

\* rows.Scan(scanArgs...) assigns column by column
ScanRowFails(args, row) ==
    \E i \in 1..Len(args) : ScanFails(args[i], row[i])
ScanRow(args, row) ==
    [i \in 1..Len(args) |-> ScanInto(args[i], row[i])]

\* masterData[v.Name()] = ..., column after column: a later column of the
\* same name replaces the entry of an earlier one
RECURSIVE MasterData(_, _, _)
MasterData(cols, args, n) ==
    IF n = 0 THEN << >>
    ELSE LET md == MasterData(cols, args, n - 1)
             nm == cols[n].name
         IN  [x \in (DOMAIN md) \cup {nm} |->
                 IF x = nm THEN Unwrap(args[n]) ELSE md[x]]

\* jsoniter's encoding of a bare value
JsonValue(v) ==
    CASE v.k = "string" -> "\"" \o v.s \o "\""
      [] v.k = "bool" -> IF v.b THEN "true" ELSE "false"
      [] v.k = "int64" -> ToString(v.i)
      [] OTHER -> "null"

\* the orders in which a Go map may be walked
KeyOrders(rec) ==
    { o \in [1..Cardinality(DOMAIN rec) -> DOMAIN rec] :
        \A i, j \in DOMAIN o : i # j => o[i] # o[j] }

RECURSIVE JsonMembers(_, _)
JsonMembers(rec, order) ==
    IF order = <<>> THEN ""
    ELSE "\"" \o Head(order) \o "\":" \o JsonValue(rec[Head(order)])
         \o (IF Tail(order) = <<>> THEN "" ELSE ",")
         \o JsonMembers(rec, Tail(order))

JsonObjects(rec) == { "{" \o JsonMembers(rec, o) \o "}" : o \in KeyOrders(rec) }

RECURSIVE JsonElements(_)
JsonElements(recs) ==
    IF recs = <<>> THEN {""}
    ELSE { obj \o (IF Tail(recs) = <<>> THEN "" ELSE ",") \o rest :
             obj \in JsonObjects(Head(recs)), rest \in JsonElements(Tail(recs)) }

\* jsoniter.Marshal(finalRows): the texts it can produce (map keys unsorted)
Marshal(recs) == { "[" \o body \o "]" : body \in JsonElements(recs) }

----------------------------------------------------------------------------
(* Client.ExecuteQuery and unmarshalSQLRows                                *)

CallExecuteQuery ==
    /\ pc = "idle" /\ dbsOpen + rowsOpen < MaxOpen
    /\ \E h \in QueryHosts, p \in QueryPorts, d \in QueryDbNames :
         /\ host' = h /\ port' = p /\ dbName' = d
    /\ op' = "ExecuteQuery" /\ pc' = "sqlOpen"
    /\ ResetLocals
    /\ columnTypes' = <<>> /\ rsCount' = 0 /\ rsRows' = <<>>
    /\ scanArgs' = <<>> /\ finalRows' = <<>>
    /\ failure' = [site |-> "none", err |-> NilErr]
    /\ UNCHANGED <<tcpOpen, poolsOpen, dbsOpen, rowsOpen>>

\* an error return that drops the error
ErrReturnNil(e) == [s |-> "", err |-> NilErr]

\* return "", err  (unmarshalSQLRows' return nil, err passes through it)
ErrReturn(e) == [s |-> "", err |-> e]

\* Everything of a call that a step of the query path leaves alone.
QueryFrame == <<op, host, port, dbName, created, probeVars, authVars>>

\* db, err := sql.Open("postgres", connStr) fails: return "", err
SqlOpenFail ==
    /\ pc = "sqlOpen"
    /\ \E e \in { Err("invalid connection string") } :
         /\ failure' = [site |-> "open", err |-> e]
         /\ ret' = ErrReturn(e)
    /\ pc' = "done"
    /\ UNCHANGED <<QueryFrame, netOps, dbsOpen, rowsOpen, columnTypes, rsCount,
                   rsRows, scanArgs, finalRows>>

\* sql.Open succeeds: a *sql.DB handle exists from here on
SqlOpenOk ==
    /\ pc = "sqlOpen"
    /\ dbsOpen' = dbsOpen + 1
    /\ pc' = "query"
    /\ UNCHANGED <<QueryFrame, ret, netOps, rowsOpen, columnTypes, rsCount,
                   rsRows, scanArgs, finalRows, failure>>

\* rows, err := db.Query(query) fails: return "", err (no db.Close())
DbQueryFail ==
    /\ pc = "query"
    /\ \E e \in QueryErrs :
         /\ failure' = [site |-> "query", err |-> e]
         /\ ret' = ErrReturn(e)
    /\ netOps' = netOps + 1
    /\ pc' = "done"
    /\ UNCHANGED <<QueryFrame, dbsOpen, rowsOpen, columnTypes, rsCount,
                   rsRows, scanArgs, finalRows>>

\* db.Query succeeds: a cursor over some result set
DbQueryOk ==
    /\ pc = "query"
    /\ \E cols \in ColumnLists :
         /\ columnTypes' = cols
         /\ \E n \in RowCounts(cols) : rsCount' = n
    /\ rsRows' = <<>>
    /\ rowsOpen' = rowsOpen + 1
    /\ netOps' = netOps + 1
    /\ pc' = "columnTypes"
    /\ UNCHANGED <<QueryFrame, ret, dbsOpen, scanArgs, finalRows, failure>>

\* rows.ColumnTypes() fails, which database/sql does for a cursor that is
\* closed already: unmarshalSQLRows returns nil, err
ColumnTypesFail ==
    /\ pc = "columnTypes"
    /\ \E e \in { Err("sql: Rows are closed") } :
         /\ failure' = [site |-> "columnTypes", err |-> e]
         /\ ret' = ErrReturn(e)
    /\ rowsOpen' = rowsOpen - 1
    /\ pc' = "done"
    /\ UNCHANGED <<QueryFrame, netOps, dbsOpen, columnTypes, rsCount, rsRows,
                   scanArgs, finalRows>>

\* rows.ColumnTypes() succeeds; count, finalRows := len(columnTypes), {}
ColumnTypesOk ==
    /\ pc = "columnTypes"
    /\ finalRows' = <<>>
    /\ pc' = "rowsNext"
    /\ UNCHANGED <<QueryFrame, ret, netOps, dbsOpen, rowsOpen, columnTypes,
                   rsCount, rsRows, scanArgs, failure>>

\* rows.Next() returns true: the next row is ready for Scan
RowsNextRow ==
    /\ pc = "rowsNext"
    /\ Len(rsRows) < rsCount
    /\ \E row \in RowsOf(columnTypes) : rsRows' = Append(rsRows, row)
    /\ scanArgs' = NewScanArgs(columnTypes)
    /\ pc' = "scan"
    /\ UNCHANGED <<QueryFrame, ret, netOps, dbsOpen, rowsOpen, columnTypes,
                   rsCount, finalRows, failure>>

\* rows.Next() returns false at the end of the result set and closes the
\* cursor; the loop ends
RowsNextEnd ==
    /\ pc = "rowsNext"
    /\ Len(rsRows) = rsCount
    /\ rowsOpen' = rowsOpen - 1
    /\ pc' = "marshal"
    /\ UNCHANGED <<QueryFrame, ret, netOps, dbsOpen, columnTypes, rsCount,
                   rsRows, scanArgs, finalRows, failure>>

\* rows.Next() returns false because fetching the next row failed; it
\* closes the cursor and keeps the error for rows.Err(), which
\* unmarshalSQLRows never calls: the loop ends as at the end of the set
RowsNextErr ==
    /\ pc = "rowsNext"
    /\ \E e \in { Err("read tcp: connection reset by peer") } :
         failure' = [site |-> "next", err |-> e]
    /\ rowsOpen' = rowsOpen - 1
    /\ pc' = "marshal"
    /\ UNCHANGED <<QueryFrame, ret, netOps, dbsOpen, columnTypes, rsCount,
                   rsRows, scanArgs, finalRows>>

\* rows.Scan(scanArgs...) fails: return nil, err (no rows.Close())
RowsScanFail ==
    /\ pc = "scan"
    /\ ScanRowFails(scanArgs, rsRows[Len(rsRows)])
    /\ \E e \in { Err("sql: Scan error: converting driver.Value") } :
         /\ failure' = [site |-> "scan", err |-> e]
         /\ ret' = ErrReturn(e)
    /\ pc' = "done"
    /\ UNCHANGED <<QueryFrame, netOps, dbsOpen, rowsOpen, columnTypes, rsCount,
                   rsRows, scanArgs, finalRows>>

\* rows.Scan succeeds; masterData is built and appended to finalRows
RowsScanOk ==
    /\ pc = "scan"
    /\ ~ScanRowFails(scanArgs, rsRows[Len(rsRows)])
    /\ scanArgs' = ScanRow(scanArgs, rsRows[Len(rsRows)])
    /\ finalRows' = Append(finalRows,
                           MasterData(columnTypes, scanArgs', Len(columnTypes)))
    /\ pc' = "rowsNext"
    /\ UNCHANGED <<QueryFrame, ret, netOps, dbsOpen, rowsOpen, columnTypes,
                   rsCount, rsRows, failure>>

\* return jsoniter.Marshal(finalRows); ExecuteQuery returns string(resp), nil
MarshalRows ==
    /\ pc = "marshal"
    /\ \E text \in Marshal(finalRows) :
         ret' = [s |-> text, err |-> NilErr]
    /\ pc' = "done"
    /\ UNCHANGED <<QueryFrame, netOps, dbsOpen, rowsOpen, columnTypes, rsCount,
                   rsRows, scanArgs, finalRows, failure>>

----------------------------------------------------------------------------
\* the call has returned to the caller: its locals are gone, the value it
\* returned and the resources it left open remain
Return ==
    /\ pc = "done"
    /\ pc' = "idle"
    /\ created' = 0 /\ netOps' = 0
    /\ dialErr' = NilErr /\ service' = NoService /\ detErr' = NilErr
    /\ detectRan' = FALSE
    /\ execErr' = NilErr
    /\ columnTypes' = <<>> /\ rsCount' = 0 /\ rsRows' = <<>>
    /\ scanArgs' = <<>> /\ finalRows' = <<>>
    /\ failure' = [site |-> "none", err |-> NilErr]
    /\ UNCHANGED <<op, host, port, dbName, ret, tcpOpen, poolsOpen, dbsOpen,
                   rowsOpen>>

Init ==
    /\ pc = "idle" /\ op = "none"
    /\ host = "" /\ port = 0 /\ dbName = ""
    /\ ret = NoRet
    /\ tcpOpen = 0 /\ poolsOpen = 0 /\ created = 0 /\ netOps = 0
    /\ dialErr = NilErr /\ service = NoService /\ detErr = NilErr
    /\ detectRan = FALSE
    /\ execErr = NilErr
    /\ dbsOpen = 0 /\ rowsOpen = 0
    /\ columnTypes = <<>> /\ rsCount = 0 /\ rsRows = <<>>
    /\ scanArgs = <<>> /\ finalRows = <<>>
    /\ failure = [site |-> "none", err |-> NilErr]

Next ==
    \/ CallConnect
    \/ CallConnectWithDB
    \/ ConnectValidate
    \/ PgConnect
    \/ ConnectExec
    \/ CallIsPostgres
    \/ DialFail
    \/ DialOk
    \/ Detect
    \/ Return

Spec == Init /\ [][Next]_vars

NextQuery ==
    \/ CallExecuteQuery
    \/ SqlOpenFail
    \/ SqlOpenOk
    \/ DbQueryFail
    \/ DbQueryOk
    \/ ColumnTypesFail
    \/ ColumnTypesOk
    \/ RowsNextRow
    \/ RowsNextEnd
    \/ RowsNextErr
    \/ RowsScanFail
    \/ RowsScanOk
    \/ MarshalRows
    \/ Return

SpecQuery == Init /\ [][NextQuery]_vars

----------------------------------------------------------------------------
(* Properties.                                                             *)

\* the call is at its return: the result is set, the deferred calls have run
Returned == pc = "done"
InConnect == op \in {"Connect", "ConnectWithDB"}

ConnectivitySubstrings ==
    { "connect: connection refused", "no pg_hba.conf entry for host",
      "network unreachable", "reset", "i/o timeout" }
Classified(m) == \E sub \in ConnectivitySubstrings : Contains(m, sub)

\* C1: a call of Connect or ConnectWithDB with a valid target returns
\* (true, nil) when `select 1` succeeded, (false, that error) when it failed
\* with a message containing one of the five substrings, and (false, nil)
\* when it failed with any other message -- whatever the target and database.
TheoremC1 ==
    (Returned /\ InConnect /\ host # "" /\ port > 0) =>
        /\ execErr.isNil => ret = [ok |-> TRUE, err |-> NilErr]
        /\ (~execErr.isNil /\ Classified(execErr.msg))
              => ret = [ok |-> FALSE, err |-> execErr]
        /\ (~execErr.isNil /\ ~Classified(execErr.msg))
              => ret = [ok |-> FALSE, err |-> NilErr]

\* `select 1` failed with "connect: connection refused" behind a dial
\* prefix, and Connect passed that error on
WitnessC1 ==
    /\ pc = "done" /\ op = "Connect" /\ host # "" /\ port > 0
    /\ execErr = Err("dial tcp 10.0.0.1:5432: connect: connection refused")
    /\ ret = [ok |-> FALSE, err |-> execErr]

\* C2: while Connect or ConnectWithDB runs on a target with an empty host or
\* a port <= 0, no handle is created and no network action happens, the call
\* never reaches pg.Connect or db.Exec, and it returns (false, non-nil error).
TheoremC2 ==
    (InConnect /\ (host = "" \/ port <= 0)) =>
        /\ created = 0 /\ netOps = 0
        /\ pc \notin {"pgConnect", "exec"}
        /\ Returned => (ret.ok = FALSE /\ ~ret.err.isNil)

\* port 0 with a host: rejected, and nothing was created
WitnessC2 ==
    /\ pc = "done" /\ op = "ConnectWithDB"
    /\ host = "db.internal" /\ port = 0
    /\ ret.ok = FALSE /\ ~ret.err.isNil /\ created = 0 /\ netOps = 0

\* C3: IsPostgres returns exactly one of: (false, dial error) without running
\* the detection; (false, detection error); (false, nil) when the detection
\* returned no service and no error; (true, nil) when it returned a service.
\* true never comes with an error.
TheoremC3 ==
    (Returned /\ op = "IsPostgres") =>
        /\ \/ ~dialErr.isNil /\ ~detectRan
              /\ ret = [ok |-> FALSE, err |-> dialErr]
           \/ dialErr.isNil /\ detectRan /\ ~detErr.isNil
              /\ ret = [ok |-> FALSE, err |-> detErr]
           \/ dialErr.isNil /\ detectRan /\ detErr.isNil /\ service = NoService
              /\ ret = [ok |-> FALSE, err |-> NilErr]
           \/ dialErr.isNil /\ detectRan /\ detErr.isNil /\ service # NoService
              /\ ret = [ok |-> TRUE, err |-> NilErr]
        /\ ret.ok => ret.err.isNil

\* the detection ran and found nothing: absent, and not an error
WitnessC3 ==
    /\ pc = "done" /\ op = "IsPostgres"
    /\ detectRan /\ detErr.isNil /\ service = NoService
    /\ ret = [ok |-> FALSE, err |-> NilErr]

\* C9: once IsPostgres has returned, no connection it dialled is open; when
\* the dial failed none was ever created.
TheoremC9 ==
    /\ pc \in {"done", "idle"} => tcpOpen = 0
    /\ (Returned /\ op = "IsPostgres" /\ ~dialErr.isNil) => created = 0

\* a connection was dialled, the detection failed, the connection is closed
WitnessC9 ==
    /\ pc = "done" /\ op = "IsPostgres"
    /\ created = 1 /\ ~detErr.isNil /\ tcpOpen = 0

\* C7: in the state that follows the return of Connect or ConnectWithDB, no
\* pool handle made by pg.Connect is open.
ClaimC7 ==
    (pc = "idle" /\ InConnect) => poolsOpen = 0

----------------------------------------------------------------------------
(* Properties of the query path.                                           *)

InQuery == op = "ExecuteQuery"

\* the column that supplies the record's entry of its name: the last one
Supplies(j) ==
    \A k \in (j + 1)..Len(columnTypes) : columnTypes[k].name # columnTypes[j].name

StringTypes == { "VARCHAR", "TEXT", "UUID", "TIMESTAMP" }

\* the zero value of the holder type of a column of the given type
ZeroOf(typeName) ==
    CASE typeName = "BOOL" -> BoolV(FALSE)
      [] typeName = "INT4" -> IntV(0)
      [] OTHER -> StrV("")

\* the row with every NULL cell replaced by that zero value
Zeroed(row) ==
    [j \in 1..Len(columnTypes) |->
        IF row[j] = Null THEN ZeroOf(columnTypes[j].type) ELSE row[j]]

\* the record unmarshalSQLRows builds from one row
RecordOf(row) ==
    MasterData(columnTypes, ScanRow(NewScanArgs(columnTypes), row),
               Len(columnTypes))

\* C4: in what ExecuteQuery returns, a NULL cell appears as the zero value
\* of its column's holder type ("" for string-decoded columns, false for
\* BOOL, 0 for INT4); each record is the one its row would give with that
\* zero value in the cell; no record and no serialization holds a null.
TheoremC4 ==
    (Returned /\ InQuery /\ ret.err.isNil) =>
        /\ \A i \in 1..Len(finalRows) :
             /\ \A j \in 1..Len(columnTypes) :
                  (rsRows[i][j] = Null /\ Supplies(j)) =>
                      finalRows[i][columnTypes[j].name]
                          = ZeroOf(columnTypes[j].type)
             /\ \A n \in DOMAIN finalRows[i] :
                  finalRows[i][n].k \in {"string", "bool", "int64"}
             /\ ~ScanRowFails(NewScanArgs(columnTypes), Zeroed(rsRows[i]))
             /\ RecordOf(Zeroed(rsRows[i])) = finalRows[i]
        /\ ~Contains(ret.s, "null")

\* a NULL in an INT4 column and a NULL in a BOOL column were serialized
WitnessC4 ==
    /\ pc = "done" /\ InQuery /\ ret.err.isNil
    /\ Len(finalRows) >= 1 /\ Len(columnTypes) = 2
    /\ columnTypes[1] = [name |-> "a", type |-> "INT4"]
    /\ columnTypes[2] = [name |-> "b", type |-> "BOOL"]
    /\ rsRows[1] = <<Null, Null>>
    /\ ret.s \in { "[{\"a\":0,\"b\":false}]", "[{\"b\":false,\"a\":0}]" }

\* the kind of output value the claim gives a declared type name
KindOf(typeName) ==
    CASE typeName \in StringTypes -> "string"
      [] typeName = "BOOL" -> "bool"
      [] typeName = "INT4" -> "int64"
      [] OTHER -> "string"

HolderOf(typeName) ==
    CASE typeName \in StringTypes -> "NullString"
      [] typeName = "BOOL" -> "NullBool"
      [] typeName = "INT4" -> "NullInt64"
      [] OTHER -> "NullString"

\* C5: the holder of a column and the kind of its output value are fixed by
\* the declared type name alone (VARCHAR, TEXT, UUID, TIMESTAMP -> string;
\* BOOL -> boolean; INT4 -> 64-bit integer; other -> string), in every row
\* and whatever the cells hold.
TheoremC5 ==
    /\ \A j \in 1..Len(scanArgs) : scanArgs[j].h = HolderOf(columnTypes[j].type)
    /\ \A i \in 1..Len(finalRows) : \A j \in 1..Len(columnTypes) :
         Supplies(j) =>
             finalRows[i][columnTypes[j].name].k = KindOf(columnTypes[j].type)

\* an INT4 column whose cells were a string, then an integer, then NULL:
\* three integers in the output
WitnessC5 ==
    /\ pc = "done" /\ InQuery /\ ret.err.isNil
    /\ Len(columnTypes) = 1 /\ columnTypes[1].type = "INT4"
    /\ rsRows = << <<StrV("7")>>, <<IntV(0)>>, <<Null>> >>
    /\ ret.s = "[{\"a\":7},{\"a\":0},{\"a\":0}]"

\* the number of objects in a serialized array
NumRecords(text) ==
    Cardinality({ i \in 1..Len(text) : SubSeq(text, i, i) = "{" })

\* C6: when ExecuteQuery returns a nil error, the array holds one record per
\* row of the result set, the i-th decoded from the i-th row, and it is "[]"
\* for a result set without rows.
ClaimC6 ==
    (Returned /\ InQuery /\ ret.err.isNil) =>
        /\ NumRecords(ret.s) = rsCount
        /\ Len(rsRows) = rsCount
        /\ ret.s \in Marshal([i \in 1..Len(rsRows) |-> RecordOf(rsRows[i])])
        /\ rsCount = 0 => ret.s = "[]"

\* C8: in the state that follows the return of ExecuteQuery, no handle made
\* by sql.Open and no cursor returned by db.Query is open.
ClaimC8 ==
    (pc = "idle" /\ InQuery) => (dbsOpen = 0 /\ rowsOpen = 0)

====
